---- MODULE Spec2Model ----
(***************************************************************************)
(* go-dns-update: one run of main() in main.go against a DNS provider and  *)
(* a public-IP service.  Each outbound HTTP call is one step; the answer   *)
(* of the remote side is chosen nondeterministically at that step.         *)
(***************************************************************************)
EXTENDS Integers, Sequences, FiniteSets, TLC

\* ---------------------------------------------------------------- bounds
MaxZones == 2       \* longest zone list the provider answers with
MaxRecords == 2     \* longest record list the provider answers with
MaxRuns == 2        \* invocations of the binary by the external scheduler

\* ---------------------------------------------------------- input domains
Tokens == {"", "tok"}
Domains == {"", "example.com"}
ZoneNames == {"example.com", "notexample.com"}
RecordNames == {"example.com", "www.example.com", "notexample.com", "example.com.au"}
IPs == {"1.1.1.1", "2.2.2.2"}
RecordContents == IPs \cup {""}
HTTPStatuses == {200, 500}

\* JSON null / absent value of a field that the code casts
Null == "null"

\* outcome of client.Do followed by io.ReadAll
Transport == {"ok", "timeout", "refused", "readerr"}

\* what the remote side does with a request
ServerBehaviours == {"answers", "refuses", "silent", "breaks"}

\* variant: the request carries no deadline, a silent server blocks the call
CallResultNoDeadline(b) ==
    CASE b = "answers" -> "ok"
      [] b = "refuses" -> "refused"
      [] b = "silent" -> "hang"
      [] b = "breaks" -> "readerr"

\* client.Do and io.ReadAll on a request built with the 5 s context: a silent
\* server ends the call with context.DeadlineExceeded
CallResult(b) ==
    CASE b = "answers" -> "ok"
      [] b = "refuses" -> "refused"
      [] b = "silent" -> "timeout"
      [] b = "breaks" -> "readerr"

\* provider identifiers are unique keys: the i-th entry of a list has the i-th id
ZoneIdAt(i) == "z" \o ToString(i)
RecordIdAt(i) == "r" \o ToString(i)

RECURSIVE SeqsUpTo(_, _)
SeqsUpTo(S, n) ==
    IF n = 0 THEN {<<>>}
    ELSE LET shorter == SeqsUpTo(S, n - 1)
         IN  shorter \cup {Append(s, e) : s \in {t \in shorter : Len(t) = n - 1}, e \in S}

ZoneLists ==
    {[i \in 1..Len(ns) |-> [id |-> ZoneIdAt(i), name |-> ns[i]]] : ns \in SeqsUpTo(ZoneNames, MaxZones)}

RecordLists ==
    {[i \in 1..Len(rs) |-> [id |-> RecordIdAt(i), name |-> rs[i][1], content |-> rs[i][2]]] :
        rs \in SeqsUpTo(RecordNames \X RecordContents, MaxRecords)}

\* a list response: the "result" member is a JSON array or is null/absent
ZoneResponses == {[hasResult |-> TRUE, result |-> l] : l \in ZoneLists}
                   \cup {[hasResult |-> FALSE, result |-> <<>>]}
RecordResponses == {[hasResult |-> TRUE, result |-> l] : l \in RecordLists}
                     \cup {[hasResult |-> FALSE, result |-> <<>>]}

\* an edit response: "success" and the "content" of "result" (Null: result is null)
EditResponses == [success : BOOLEAN, content : IPs \cup {Null}]

NoResponse == [success |-> FALSE, content |-> Null]
NoList == [hasResult |-> FALSE, result |-> <<>>]

\* answers of the IP service: status and body
IPResponses == [status : HTTPStatuses, body : IPs]
NoIP == [status |-> 0, body |-> ""]
NoPrev == [updated |-> FALSE, store |-> NoList]

VARIABLES
    apiToken, domainName, handleWWW,   \* CLI flags
    pc,                                \* position of main
    term,                              \* how the process ended
    zoneID, publicIP,                  \* locals of main
    dnsRecordIP, domainID, wwwID,      \* results of GetDNSRecord
    recErr,                            \* error returned by GetDNSRecord
    updRet,                            \* bool returned by updateDNSRecord
    zones, records,                    \* list responses of the provider
    answered,                          \* calls whose response body was read
    ipStatus,                          \* HTTP status of the IP service's answer
    rootResp, wwwResp,                 \* edit responses received
    calls,                             \* outbound calls fired, in order
    writes,                            \* edit calls fired, in order
    doErr,                             \* error of the last client.Do / io.ReadAll
    ipErr,                             \* error GetPublicIP returned to main
    store,                             \* the provider's records, once listed
    zoneStore,                         \* the provider's zones, once listed
    ipStore,                           \* the IP service's answer, once given
    run,                               \* number of this invocation
    prev                               \* how the previous invocation ended

vars == <<apiToken, domainName, handleWWW, pc, term, zoneID, publicIP,
          dnsRecordIP, domainID, wwwID, recErr, updRet, zones, records,
          ipStatus, rootResp, wwwResp, calls, writes, answered,
          doErr, ipErr, store, zoneStore, ipStore, run, prev>>

\* what outlives one invocation
world == <<store, zoneStore, ipStore, run, prev>>

flags == <<apiToken, domainName, handleWWW>>

Init ==
    /\ apiToken \in Tokens
    /\ domainName \in Domains
    /\ handleWWW \in BOOLEAN
    /\ pc = "start"
    /\ term = "running"
    /\ zoneID = ""
    /\ publicIP = ""
    /\ dnsRecordIP = ""
    /\ domainID = ""
    /\ wwwID = ""
    /\ recErr = "nil"
    /\ updRet = "none"
    /\ zones = NoList
    /\ records = NoList
    /\ answered = {}
    /\ ipStatus = 0
    /\ rootResp = NoResponse
    /\ wwwResp = NoResponse
    /\ calls = <<>>
    /\ writes = <<>>
    /\ doErr = "nil"
    /\ ipErr = "none"
    /\ store = NoList
    /\ zoneStore = NoList
    /\ ipStore = NoIP
    /\ run = 1
    /\ prev = NoPrev

\* ------------------------------------------------------- process endings
\* log.Fatal logs and exits the process with status 1
Fatal == pc' = "exit" /\ term' = "fatal"
\* a failed type assertion or an index out of range aborts the process
Panic == pc' = "exit" /\ term' = "panic"
\* main returns after the no-op notice
ReturnNoop == pc' = "exit" /\ term' = "noop"
\* main returns after updateDNSRecord returned
ReturnAfterUpdate == pc' = "exit" /\ term' = "returned"

\* a call that never returns
Hang == pc' = "blocked" /\ UNCHANGED term

ExitStatus ==
    CASE term = "fatal" -> 1
      [] term = "panic" -> 2
      [] term \in {"noop", "returned"} -> 0
      [] OTHER -> -1

\* --------------------------------------------------------------- main
\* variant: only both flags missing together is refused
FlagsMissingBoth(token, domain) == token = "" /\ domain = ""

\* if apiToken == "" || domainName == ""
FlagsMissing(token, domain) == token = "" \/ domain = ""

CheckFlags ==
    /\ pc = "start"
    /\ IF FlagsMissing(apiToken, domainName)
         THEN Fatal
         ELSE pc' = "zone" /\ UNCHANGED term
    /\ UNCHANGED <<flags, zoneID, publicIP, dnsRecordIP, domainID, wwwID, recErr,
                   updRet, zones, records, ipStatus, rootResp, wwwResp, calls, writes,
                   answered, doErr, ipErr, world>>

\* ------------------------------------------------------------ GetZoneID
\* responseResult["result"].([]any)[0].(map[string]any)["id"]
ZoneIDOf(resp) == resp.result[1].id

ZoneDecodePanics(resp) == ~resp.hasResult \/ Len(resp.result) = 0

\* the provider lists the zones it holds
ZoneAnswers == IF zoneStore.hasResult THEN {zoneStore} ELSE ZoneResponses

GetZoneID ==
    /\ pc = "zone"
    /\ calls' = Append(calls, "zones")
    /\ \E b \in ServerBehaviours :
         LET t == CallResult(b) IN
         /\ doErr' = IF t = "ok" THEN "nil" ELSE t
         /\ IF t = "hang"
           THEN Hang /\ UNCHANGED <<zoneID, zones, answered, zoneStore>>
           ELSE IF t # "ok"
           THEN Fatal /\ UNCHANGED <<zoneID, zones, answered, zoneStore>>
           ELSE \E resp \in ZoneAnswers :
                  /\ zones' = resp
                  /\ zoneStore' = resp
                  /\ answered' = answered \cup {"zones"}
                  /\ IF ZoneDecodePanics(resp)
                       THEN Panic /\ UNCHANGED zoneID
                       ELSE /\ zoneID' = ZoneIDOf(resp)
                            /\ pc' = "ip"
                            /\ UNCHANGED term
    /\ UNCHANGED <<flags, publicIP, dnsRecordIP, domainID, wwwID, recErr, updRet,
                   records, ipStatus, rootResp, wwwResp, writes, ipErr, store,
                   ipStore, run, prev>>

\* ---------------------------------------------------------- GetPublicIP
\* string(body), whatever the status of the response
PublicIPOf(status, body) == body

\* return string(body), nil
PublicIPErrOf(status, body) == "nil"

\* the IP service reports the address it observes
IPAnswers == IF ipStore.status # 0 THEN {ipStore} ELSE IPResponses

\* variant: the IP resolution does not wait for GetZoneID to return
IPMayStartEarly == pc \in {"zone", "ip"}

\* main calls GetPublicIP once GetZoneID has returned without error
IPMayStart == pc = "ip"

GetPublicIP ==
    /\ IPMayStart
    /\ calls' = Append(calls, "ip")
    /\ \E b \in ServerBehaviours :
         LET t == CallResult(b) IN
         /\ doErr' = IF t = "ok" THEN "nil" ELSE t
         /\ IF t = "hang"
           THEN Hang /\ UNCHANGED <<publicIP, ipStatus, answered, ipErr, ipStore>>
           ELSE IF t # "ok"
           THEN Fatal /\ UNCHANGED <<publicIP, ipStatus, answered, ipErr, ipStore>>
           ELSE \E resp \in IPAnswers :
                  /\ answered' = answered \cup {"ip"}
                  /\ ipStore' = resp
                  /\ ipStatus' = resp.status
                  /\ publicIP' = PublicIPOf(resp.status, resp.body)
                  /\ ipErr' = PublicIPErrOf(resp.status, resp.body)
                  /\ pc' = "records"
                  /\ UNCHANGED term
    /\ UNCHANGED <<flags, zoneID, dnsRecordIP, domainID, wwwID, recErr, updRet,
                   zones, records, rootResp, wwwResp, writes, store, zoneStore,
                   run, prev>>

\* --------------------------------------------------------- GetDNSRecord
\* tmpJsonObj["name"] == domainName
IsRootName(name, domain) == name = domain

\* tmpJsonObj["name"] == "www."+domainName
IsWWWName(name, domain) == name = "www." \o domain

NoMatch == [domainIP |-> "", domainID |-> "", wwwID |-> ""]

\* variant: the www branch also takes the content of the www record
RECURSIVE ScanRecordsWWWContent(_, _, _, _, _)
ScanRecordsWWWContent(list, i, domain, www, acc) ==
    IF i > Len(list) THEN acc
    ELSE LET r == list[i]
             a1 == IF IsRootName(r.name, domain)
                     THEN [acc EXCEPT !.domainIP = r.content, !.domainID = r.id]
                     ELSE acc
             a2 == IF www /\ IsWWWName(r.name, domain)
                     THEN [a1 EXCEPT !.wwwID = r.id, !.domainIP = r.content]
                     ELSE a1
         IN  ScanRecordsWWWContent(list, i + 1, domain, www, a2)

\* variant: a match is kept once found, later records of the same name are skipped
RECURSIVE ScanRecordsFirstWins(_, _, _, _, _)
ScanRecordsFirstWins(list, i, domain, www, acc) ==
    IF i > Len(list) THEN acc
    ELSE LET r == list[i]
             a1 == IF IsRootName(r.name, domain) /\ acc.domainID = ""
                     THEN [acc EXCEPT !.domainIP = r.content, !.domainID = r.id]
                     ELSE acc
             a2 == IF www /\ IsWWWName(r.name, domain) /\ acc.wwwID = ""
                     THEN [a1 EXCEPT !.wwwID = r.id]
                     ELSE a1
         IN  ScanRecordsFirstWins(list, i + 1, domain, www, a2)

\* the loop over jsonResponseArray, from element i on, with the locals in acc
RECURSIVE ScanRecords(_, _, _, _, _)
ScanRecords(list, i, domain, www, acc) ==
    IF i > Len(list) THEN acc
    ELSE LET r == list[i]
             a1 == IF IsRootName(r.name, domain)
                     THEN [acc EXCEPT !.domainIP = r.content, !.domainID = r.id]
                     ELSE acc
             a2 == IF www /\ IsWWWName(r.name, domain)
                     THEN [a1 EXCEPT !.wwwID = r.id]
                     ELSE a1
         IN  ScanRecords(list, i + 1, domain, www, a2)

\* if domainIP == "" { return ... "could not match domain name" }
RootMissing(found) == found.domainIP = ""

\* variant: the www check left out
WWWMissingUnchecked(found, www) == FALSE

\* if handleWWW && wwwID == "" { return ... "could not get www record ..." }
WWWMissing(found, www) == www /\ found.wwwID = ""

\* the four values GetDNSRecord returns for a decoded record list
GetDNSRecordResult(list, domain, www) ==
    LET found == ScanRecords(list, 1, domain, www, NoMatch)
    IN  IF RootMissing(found)
          THEN [domainIP |-> "", domainID |-> "", wwwID |-> "", err |-> "nomatch"]
          ELSE IF WWWMissing(found, www)
                 THEN [domainIP |-> "", domainID |-> "", wwwID |-> "", err |-> "nowww"]
                 ELSE [domainIP |-> found.domainIP, domainID |-> found.domainID,
                       wwwID |-> found.wwwID, err |-> "nil"]

\* variant: the error of GetDNSRecord is not looked at
IsErrorIgnored(err) == FALSE

\* if err != nil
IsError(err) == err # "nil"

\* the provider lists the records it holds
RecordAnswers == IF store.hasResult THEN {store} ELSE RecordResponses

GetDNSRecord ==
    /\ pc = "records"
    /\ calls' = Append(calls, "records")
    /\ \E b \in ServerBehaviours :
         LET t == CallResult(b) IN
         /\ doErr' = IF t = "ok" THEN "nil" ELSE t
         /\ IF t = "hang"
           THEN Hang /\ UNCHANGED <<dnsRecordIP, domainID, wwwID, recErr, records,
                                    answered, store>>
           ELSE IF t # "ok"
           THEN Fatal /\ UNCHANGED <<dnsRecordIP, domainID, wwwID, recErr, records,
                                     answered, store>>
           ELSE \E resp \in RecordAnswers :
                  /\ records' = resp
                  /\ store' = resp
                  /\ answered' = answered \cup {"records"}
                  /\ IF ~resp.hasResult
                       THEN Panic /\ UNCHANGED <<dnsRecordIP, domainID, wwwID, recErr>>
                       ELSE LET ret == GetDNSRecordResult(resp.result, domainName, handleWWW)
                            IN  /\ dnsRecordIP' = ret.domainIP
                                /\ domainID' = ret.domainID
                                /\ wwwID' = ret.wwwID
                                /\ recErr' = ret.err
                                /\ IF IsError(ret.err)
                                     THEN Fatal
                                     ELSE pc' = "decide" /\ UNCHANGED term
    /\ UNCHANGED <<flags, zoneID, publicIP, updRet, zones, ipStatus, rootResp,
                   wwwResp, writes, ipErr, zoneStore, ipStore, run, prev>>

\* ------------------------------------------------- main: the comparison
\* variant: the comparison inverted
NothingToDoInverted(pub, rec) == pub # rec

\* if publicIP == dnsRecordIP
NothingToDo(pub, rec) == pub = rec

Decide ==
    /\ pc = "decide"
    /\ IF NothingToDo(publicIP, dnsRecordIP)
         THEN ReturnNoop
         ELSE pc' = "update_root" /\ UNCHANGED term
    /\ UNCHANGED <<flags, zoneID, publicIP, dnsRecordIP, domainID, wwwID, recErr,
                   updRet, zones, records, ipStatus, rootResp, wwwResp, calls, writes,
                   answered, doErr, ipErr, world>>

\* ------------------------------------------------------ updateDNSRecord
\* variant: zone and record id in each other's place in the URL
EditCallSwapped(kind, zone, id, ip) == [kind |-> kind, zone |-> id, id |-> zone, content |-> ip]

\* the edit call: UPDATE_DNS_ENDPOINT with zone and record id, body {"content": ip}
EditCall(kind, zone, id, ip) == [kind |-> kind, zone |-> zone, id |-> id, content |-> ip]

\* responseResult["result"].(map[string]any)
EditDecodePanics(resp) == resp.content = Null

\* variant: the echoed content is not compared
ConfirmedBySuccessOnly(resp, ip) == resp.success

\* variant: the success member is not consulted
ConfirmedByEchoOnly(resp, ip) == resp.content = ip

\* responseResult["success"].(bool) && jsonResponseResult["content"].(string) == publicIP
Confirmed(resp, ip) == resp.success /\ resp.content = ip

\* variant: the second write is not guarded by the flag
WantsWWWAlways(www) == TRUE

\* if handleWWW { ... second write ... }
WantsWWW(www) == www

\* the provider's records with the content of record id replaced
ApplyEdit(st, id, content) ==
    [st EXCEPT !.result =
        [i \in 1..Len(st.result) |->
            IF st.result[i].id = id
              THEN [st.result[i] EXCEPT !.content = content]
              ELSE st.result[i]]]

\* the provider holds the content it echoes with success
StoreAfterAnswer(st, id, resp) ==
    IF resp.success /\ resp.content # Null THEN ApplyEdit(st, id, resp.content) ELSE st

\* a request whose answer was lost may or may not have been carried out
StoreAfterFailure(st, id, ip, t) ==
    IF t = "refused" THEN {st} ELSE {st, ApplyEdit(st, id, ip)}

UpdateRoot ==
    /\ pc = "update_root"
    /\ calls' = Append(calls, "edit")
    /\ writes' = Append(writes, EditCall("root", zoneID, domainID, publicIP))
    /\ \E b \in ServerBehaviours :
         LET t == CallResult(b) IN
         /\ doErr' = IF t = "ok" THEN "nil" ELSE t
         /\ IF t = "hang"
           THEN Hang /\ UNCHANGED <<rootResp, updRet, answered, store>>
           ELSE IF t # "ok"
           THEN /\ Fatal
                /\ store' \in StoreAfterFailure(store, domainID, publicIP, t)
                /\ UNCHANGED <<rootResp, updRet, answered>>
           ELSE \E resp \in EditResponses :
                  /\ rootResp' = resp
                  /\ store' = StoreAfterAnswer(store, domainID, resp)
                  /\ answered' = answered \cup {"root"}
                  /\ IF EditDecodePanics(resp)
                       THEN Panic /\ UNCHANGED updRet
                       ELSE IF Confirmed(resp, publicIP)
                              THEN IF WantsWWW(handleWWW)
                                     THEN pc' = "update_www" /\ UNCHANGED <<term, updRet>>
                                     ELSE updRet' = "true" /\ ReturnAfterUpdate
                              ELSE updRet' = "false" /\ ReturnAfterUpdate
    /\ UNCHANGED <<flags, zoneID, publicIP, dnsRecordIP, domainID, wwwID, recErr,
                   zones, records, ipStatus, wwwResp, ipErr, zoneStore, ipStore,
                   run, prev>>

UpdateWWW ==
    /\ pc = "update_www"
    /\ calls' = Append(calls, "edit")
    /\ writes' = Append(writes, EditCall("www", zoneID, wwwID, publicIP))
    /\ \E b \in ServerBehaviours :
         LET t == CallResult(b) IN
         /\ doErr' = IF t = "ok" THEN "nil" ELSE t
         /\ IF t = "hang"
           THEN Hang /\ UNCHANGED <<wwwResp, updRet, answered, store>>
           ELSE IF t # "ok"
           THEN /\ Fatal
                /\ store' \in StoreAfterFailure(store, wwwID, publicIP, t)
                /\ UNCHANGED <<wwwResp, updRet, answered>>
           ELSE \E resp \in EditResponses :
                  /\ wwwResp' = resp
                  /\ store' = StoreAfterAnswer(store, wwwID, resp)
                  /\ answered' = answered \cup {"www"}
                  /\ IF EditDecodePanics(resp)
                       THEN Panic /\ UNCHANGED updRet
                       ELSE /\ updRet' = IF Confirmed(resp, publicIP) THEN "true" ELSE "false"
                            /\ ReturnAfterUpdate
    /\ UNCHANGED <<flags, zoneID, publicIP, dnsRecordIP, domainID, wwwID, recErr,
                   zones, records, ipStatus, rootResp, ipErr, zoneStore, ipStore,
                   run, prev>>

Next ==
    \/ CheckFlags
    \/ GetZoneID
    \/ GetPublicIP
    \/ GetDNSRecord
    \/ Decide
    \/ UpdateRoot
    \/ UpdateWWW

Spec == Init /\ [][Next]_vars

\* every call returns by the deadline of its context and main keeps running
SpecFair == Spec /\ WF_vars(Next)

\* -------------------------------------------------- the external scheduler
\* the binary is started again with the same flags; the provider and the IP
\* service are as the previous invocation left them
Rerun ==
    /\ pc = "exit"
    /\ run < MaxRuns
    /\ run' = run + 1
    /\ prev' = [updated |-> (updRet = "true"), store |-> store]
    /\ pc' = "start"
    /\ term' = "running"
    /\ zoneID' = ""
    /\ publicIP' = ""
    /\ dnsRecordIP' = ""
    /\ domainID' = ""
    /\ wwwID' = ""
    /\ recErr' = "nil"
    /\ updRet' = "none"
    /\ zones' = NoList
    /\ records' = NoList
    /\ answered' = {}
    /\ ipStatus' = 0
    /\ rootResp' = NoResponse
    /\ wwwResp' = NoResponse
    /\ calls' = <<>>
    /\ writes' = <<>>
    /\ doErr' = "nil"
    /\ ipErr' = "none"
    /\ UNCHANGED <<flags, store, zoneStore, ipStore>>

NextRuns == Next \/ Rerun

SpecRuns == Init /\ [][NextRuns]_vars

TypeOK ==
    /\ pc \in {"start", "zone", "ip", "records", "decide", "update_root", "update_www", "exit"}
    /\ doErr \in (Transport \ {"ok"}) \cup {"nil"}
    /\ run \in 1..MaxRuns
    /\ term \in {"running", "fatal", "panic", "noop", "returned"}
    /\ (pc = "exit") <=> (term # "running")
    /\ updRet \in {"none", "true", "false"}
    /\ recErr \in {"nil", "nomatch", "nowww"}
    /\ Len(writes) <= Len(calls)

\* ================================================================ claims
Kinds == [i \in 1..Len(writes) |-> writes[i].kind]

\* the provider confirmed the root (www) write: success and the target echoed
RootEchoed == "root" \in answered /\ rootResp.success /\ rootResp.content = publicIP
WWWEchoed == "www" \in answered /\ wwwResp.success /\ wwwResp.content = publicIP

\* GetDNSRecord returned without error in this run
Fetched == "records" \in answered /\ records.hasResult /\ recErr = "nil"

\* C1: when the public address equals the root record content that
\* GetDNSRecord returned, the run ends as a no-op and no edit call is fired.
C1_NoopIssuesNoWrite ==
    (Fetched /\ publicIP = dnsRecordIP) =>
        /\ writes = <<>>
        /\ "edit" \notin {calls[i] : i \in 1..Len(calls)}
        /\ pc \in {"decide", "exit"}
        /\ (pc = "exit" => term = "noop")

C1_Witness == Fetched /\ publicIP = dnsRecordIP /\ term = "noop"

\* C2: the edit calls of a run are [], [root] or [root, www]; the www write
\* comes only with handleWWW set and after the root write was answered, to a
\* different record; with handleWWW set and both writes confirmed the
\* sequence is exactly [root, www].
C2_WriteOrdering ==
    /\ Kinds \in {<<>>, <<"root">>, <<"root", "www">>}
    /\ Len(writes) = 2 =>
         /\ handleWWW
         /\ "root" \in answered
         /\ writes[1].id # writes[2].id
    /\ (handleWWW /\ Fetched /\ publicIP # dnsRecordIP /\ RootEchoed /\ pc = "exit")
          => Len(writes) = 2
    /\ (handleWWW /\ RootEchoed /\ WWWEchoed) => Kinds = <<"root", "www">>

C2_Witness == Kinds = <<"root", "www">> /\ RootEchoed /\ WWWEchoed /\ pc = "exit"

\* C3: when the root write failed or was not confirmed (transport error,
\* success=false, or another content echoed), no www write is attempted,
\* whatever handleWWW is.
C3_RootFailureBlocksWWW ==
    (Len(writes) >= 1 /\ pc # "update_root" /\ ~RootEchoed) =>
        /\ Kinds = <<"root">>
        /\ pc = "exit"

C3_Witness ==
    /\ handleWWW
    /\ Kinds = <<"root">>
    /\ pc = "exit"
    /\ "root" \in answered
    /\ rootResp.success
    /\ rootResp.content \in IPs \ {publicIP}

\* C4: updateDNSRecord returns true only if every write it fired (root, and
\* www with handleWWW set) was answered with success=true and the target IP.
C4_TrueOnlyIfEchoed ==
    updRet = "true" =>
        /\ RootEchoed
        /\ handleWWW => (Len(writes) = 2 /\ WWWEchoed)

C4_Witness == updRet = "true" /\ handleWWW /\ Len(writes) = 2

\* C5: when the root write is confirmed and the www write then fails or is not
\* confirmed, the root is not written again and the run ends as a failure
\* (non-zero exit), not as a successful update.
C5_PartialFailureIsFailure ==
    (pc = "exit" /\ Len(writes) = 2 /\ RootEchoed /\ ~WWWEchoed) =>
        /\ Kinds = <<"root", "www">>
        /\ updRet # "true"
        /\ ExitStatus # 0

\* C6: the exit status is zero exactly when the run was a no-op or a fully
\* confirmed update.
C6_ExitStatusZeroIffSuccess ==
    pc = "exit" => (ExitStatus = 0 <=> (term = "noop" \/ updRet = "true"))

\* C7: with handleWWW set and a record list holding a record named the domain
\* but none named "www."+domain, GetDNSRecord returns an error, the run fails
\* and no edit call is fired.
RootListed == \E i \in 1..Len(records.result) : records.result[i].name = domainName
WWWListed == \E i \in 1..Len(records.result) : records.result[i].name = "www." \o domainName

C7_MissingWWWFailsFast ==
    ("records" \in answered /\ records.hasResult /\ handleWWW /\ RootListed /\ ~WWWListed) =>
        /\ recErr # "nil"
        /\ pc = "exit"
        /\ term = "fatal"
        /\ writes = <<>>

C7_Witness ==
    /\ "records" \in answered /\ handleWWW /\ RootListed /\ ~WWWListed
    /\ recErr = "nowww"
    /\ term = "fatal"

\* C8: for a zone list holding a zone named the domain, the zone id GetZoneID
\* returns is the id of a zone whose name equals the domain, wherever that
\* zone stands in the list; it is never the id of a zone named otherwise.
ZoneListed == \E i \in 1..Len(zones.result) : zones.result[i].name = domainName

C8_ZoneMatchedByName ==
    (zoneID # "" /\ ZoneListed) =>
        \E i \in 1..Len(zones.result) :
            zones.result[i].id = zoneID /\ zones.result[i].name = domainName

\* C9: when no zone of the list (possibly empty) is named the domain,
\* GetZoneID returns an error, main ends the run as failed, and neither the
\* record list nor an edit is requested.
C9_NoZoneIsAnError ==
    ("zones" \in answered /\ zones.hasResult /\ ~ZoneListed) =>
        /\ pc = "exit"
        /\ term = "fatal"
        /\ "records" \notin {calls[i] : i \in 1..Len(calls)}
        /\ writes = <<>>

\* C10: for every record list, GetDNSRecord succeeds with the id and content
\* of a record named exactly the domain (and the id of a record named exactly
\* "www."+domain when handleWWW is set) whenever such records are listed, and
\* it returns the not-found error exactly when no record is named the domain.
C10_RecordMatchedByName ==
    ("records" \in answered /\ records.hasResult) =>
        /\ (RootListed /\ (handleWWW => WWWListed)) =>
              /\ recErr = "nil"
              /\ \E i \in 1..Len(records.result) :
                    /\ records.result[i].name = domainName
                    /\ records.result[i].id = domainID
                    /\ records.result[i].content = dnsRecordIP
              /\ handleWWW =>
                    \E j \in 1..Len(records.result) :
                        /\ records.result[j].name = "www." \o domainName
                        /\ records.result[j].id = wwwID
        /\ (recErr = "nomatch" <=> ~RootListed)

CallSet == {calls[i] : i \in 1..Len(calls)}

\* C11: every edit call carries the public address GetPublicIP obtained in
\* this run, goes to the zone id GetZoneID returned, and targets the root id
\* or the www id GetDNSRecord returned; with handleWWW unset no www write is
\* fired and the provider's www records keep their content.
C11_WriteTargetAndContent ==
    /\ \A i \in 1..Len(writes) :
         /\ "ip" \in answered /\ writes[i].content = publicIP /\ publicIP = ipStore.body
         /\ "zones" \in answered /\ writes[i].zone = zoneID /\ zoneID = zones.result[1].id
         /\ Fetched
         /\ writes[i].kind = "root" => writes[i].id = domainID
         /\ writes[i].kind = "www" => (handleWWW /\ writes[i].id = wwwID)
         /\ \E j \in 1..Len(records.result) :
               /\ records.result[j].id = writes[i].id
               /\ records.result[j].name =
                     IF writes[i].kind = "root" THEN domainName ELSE "www." \o domainName
    /\ (~handleWWW /\ records.hasResult) =>
         /\ \A i \in 1..Len(writes) : writes[i].kind # "www"
         /\ Len(store.result) = Len(records.result)
         /\ \A j \in 1..Len(records.result) :
               records.result[j].name = "www." \o domainName
                  => /\ store.result[j].content = records.result[j].content
                     /\ \A i \in 1..Len(writes) : writes[i].id # records.result[j].id

C11_Witness ==
    /\ ~handleWWW /\ WWWListed /\ Len(writes) = 1 /\ RootEchoed
    /\ store # records
    /\ pc = "exit"

\* C12: when zone resolution, public-IP resolution or record fetching fails,
\* the run ends failed at that stage, no later call is fired and no edit is
\* issued; an edit call implies that all three succeeded and that the public
\* address differed from the root record content.
ZoneFailed == "zones" \in CallSet /\ zoneID = ""
IPFailed == "ip" \in CallSet /\ "ip" \notin answered
FetchFailed == "records" \in CallSet /\ ~Fetched

C12_FailureBlocksUpdate ==
    /\ ZoneFailed => (pc = "exit" /\ term \in {"fatal", "panic"} /\ calls = <<"zones">>)
    /\ IPFailed => (pc = "exit" /\ term = "fatal" /\ calls = <<"zones", "ip">>)
    /\ FetchFailed => /\ pc = "exit" /\ term \in {"fatal", "panic"}
                      /\ calls = <<"zones", "ip", "records">>
    /\ (ZoneFailed \/ IPFailed \/ FetchFailed) => writes = <<>>
    /\ writes # <<>> =>
         /\ zoneID # "" /\ "ip" \in answered /\ Fetched
         /\ publicIP # dnsRecordIP
         /\ SubSeq(calls, 1, 3) = <<"zones", "ip", "records">>

C12_Witness ==
    /\ "records" \in answered /\ records.hasResult /\ recErr = "nomatch"
    /\ term = "fatal" /\ writes = <<>>

\* C13: with an empty API token or an empty domain name the run ends in
\* failure before any network call.
C13_ConfigGuard ==
    (apiToken = "" \/ domainName = "") =>
        /\ calls = <<>>
        /\ writes = <<>>
        /\ pc \in {"start", "exit"}
        /\ (pc = "exit" => term = "fatal")

C13_Witness == apiToken # "" /\ domainName = "" /\ pc = "exit" /\ term = "fatal" /\ calls = <<>>

C15_StatusErrorIsError ==
    ("ip" \in answered /\ ipStatus >= 400) =>
        /\ ipErr \notin {"nil", "none"}
        /\ publicIP = ""
        /\ "records" \notin CallSet
        /\ writes = <<>>

\* C16: an IP-resolution call that ran into its deadline hands the caller of
\* GetPublicIP a timeout error, another transport failure a different error.
IPCallError == IF Len(calls) = 2 /\ calls[2] = "ip" THEN doErr ELSE "nil"

C16_TimeoutDelivered ==
    /\ IPCallError = "timeout" => ipErr = "timeout"
    /\ IPCallError = "refused" => ipErr = "refused"

\* C17: every run reaches a terminal outcome, and after it no outbound call
\* is made.
C17_Terminates ==
    /\ <>(pc = "exit" /\ term \in {"noop", "returned", "fatal", "panic"})
    /\ [][pc = "exit" => (calls' = calls /\ writes' = writes /\ pc' = "exit")]_vars

C17_Witness == pc = "exit" /\ Len(calls) = 5 /\ doErr = "timeout"

\* C18: no provider response makes the process abort with a panic.
C18_NoPanic == term # "panic"

\* C19: with handleWWW set, when the content of the root record equals the
\* public address the run is a no-op without any write, also when the content
\* of the www record differs from the public address.
RootIndexes == {i \in 1..Len(records.result) : records.result[i].name = domainName}
LastRootContent ==
    records.result[CHOOSE i \in RootIndexes : \A k \in RootIndexes : k <= i].content
WWWStale ==
    \A j \in 1..Len(records.result) :
        records.result[j].name = "www." \o domainName => records.result[j].content # publicIP

C19_NoopIgnoresWWW ==
    (/\ handleWWW /\ "records" \in answered /\ records.hasResult
     /\ RootListed /\ WWWListed /\ WWWStale
     /\ LastRootContent = publicIP) =>
        /\ recErr = "nil"
        /\ dnsRecordIP = LastRootContent
        /\ writes = <<>>
        /\ pc \in {"decide", "exit"}
        /\ (pc = "exit" => term = "noop")
        /\ store = records

C19_Witness ==
    /\ handleWWW /\ "records" \in answered /\ RootListed /\ WWWListed /\ WWWStale
    /\ LastRootContent = publicIP
    /\ term = "noop"

\* C20: after a run that ended as a confirmed update, the next run against the
\* same provider state and the same public address fires no edit call, ends
\* as a no-op when its three reads are answered, and leaves the provider's
\* records as the first run left them.
C20_SecondRunIsNoop ==
    (run >= 2 /\ prev.updated) =>
        /\ writes = <<>>
        /\ pc \notin {"update_root", "update_www"}
        /\ term \in {"running", "noop", "fatal"}
        /\ ({"zones", "ip", "records"} \subseteq answered /\ pc = "exit") => term = "noop"
        /\ store = prev.store

C20_Witness ==
    /\ run = 2 /\ prev.updated /\ term = "noop" /\ handleWWW
    /\ {"zones", "ip", "records"} \subseteq answered

\* C21: GetDNSRecord scans the whole list in any order of its entries; of
\* several records named the domain (or "www."+domain) the last one in list
\* order gives the id and the content returned, and the root id and the root
\* content are those of one and the same record.
WWWIndexes == {i \in 1..Len(records.result) : records.result[i].name = "www." \o domainName}
LastOf(S) == CHOOSE i \in S : \A k \in S : k <= i

====
